---- MODULE Spec2Model ----
(***************************************************************************)
(* Model of the Weblate supplementary scripts increment_version.py, in    *)
(* its two variants:                                                       *)
(*   src/repo-resources/increment_version.py  (many add-on folders)        *)
(*   src/binary/increment_version.py          (one binary add-on)          *)
(*                                                                         *)
(* Texts are sequences of tokens.  A token stands for a piece of text that *)
(* the scripts' patterns treat as a unit: "<addon", 'version="X"', "<news>"*)
(* "\n", and "other" for any text none of the patterns looks at.  A version*)
(* string is the sequence of its dot separated components and a component *)
(* is the sequence of its decimal digits ("1.0.09" is <<<<1>>,<<0>>,       *)
(* <<0,9>>>>, "1..2" is <<<<1>>,<<>>,<<2>>>>).  A path is a sequence of    *)
(* atoms, "/" being the separator.                                         *)
(***************************************************************************)
EXTENDS Naturals, Integers, Sequences, FiniteSets, TLC

\* ------------------------------------------------------------------ bounds
MaxComponents == 4
MaxTextLen == 4
MaxFiles == 2
MaxClassifyFiles == 3

\* ------------------------------------------------------------------ tokens
Tok(t) == [t |-> t, v |-> <<>>, l |-> <<>>]
ADDON == Tok("<addon")
NEWS == Tok("<news>")
NL == Tok("\\n")
TEXT == Tok("text")
VersionAttr(version) == [t |-> "version=", v |-> version, l |-> <<>>]

RECURSIVE SeqsUpTo(_, _)
SeqsUpTo(S, n) ==
    IF n = 0 THEN {<<>>}
    ELSE LET shorter == SeqsUpTo(S, n - 1)
         IN  shorter \cup {Append(s, x) : s \in {q \in shorter : Len(q) = n - 1}, x \in S}

\* ---------------------------------------------------------------- versions
DigitStrings == {<<>>, <<0>>, <<1>>, <<9>>, <<0, 9>>, <<9, 9>>}
VersionStrings == SeqsUpTo(DigitStrings, MaxComponents) \ {<<>>, << <<>> >>}

\* int(s) for a string of decimal digits
RECURSIVE int(_)
int(s) == IF s = <<>> THEN 0 ELSE 10 * int(SubSeq(s, 1, Len(s) - 1)) + s[Len(s)]

\* str(n) for a natural number
RECURSIVE str(_)
str(n) == IF n < 10 THEN <<n>> ELSE Append(str(n \div 10), n % 10)

\* version[2] raises IndexError on fewer than three components, int('')
\* raises ValueError
CanIncrement(version) == Len(version) >= 3 /\ version[3] # <<>>

\* a bug increment_version could have: the minor component is raised
increment_version_minor(version) == [version EXCEPT ![2] = str(int(version[2]) + 1)]

\* a bug increment_version could have: the raised component is not stored
increment_version_not_stored(version) == version

increment_version(version) == [version EXCEPT ![3] = str(int(version[3]) + 1)]

V109 == << <<1>>, <<0>>, <<9>> >>
V1010 == << <<1>>, <<0>>, <<1, 0>> >>
V10 == << <<1>>, <<0>> >>
V7191 == << <<7>>, <<1, 9>>, <<1>> >>

\* ------------------------------------------------------------ manifest text
\* GET_VERSION.search(text): the leftmost "<addon", one character or more,
\* then (lazily) the first version="[0-9.]+"; 0 when nothing matches.
IsVersionAttr(tok) == tok.t = "version="

MatchesFrom(text, i) ==
    {j \in (i + 2)..Len(text) : IsVersionAttr(text[j])}

Min(S) == CHOOSE x \in S : \A y \in S : x <= y

GET_VERSION_search(text) ==
    LET starts == {i \in 1..Len(text) : text[i] = ADDON /\ MatchesFrom(text, i) # {}}
    IN  IF starts = {} THEN 0 ELSE Min(MatchesFrom(text, Min(starts)))

\* current_version: the matched version, '' (here <<>>) without a match
current_version(text) ==
    LET j == GET_VERSION_search(text)
    IN  IF j = 0 THEN <<>> ELSE text[j].v

\* a bug the replacement could have: only the first occurrence is replaced
RECURSIVE ReplaceVersion_first_only(_, _, _)
ReplaceVersion_first_only(text, old_version, new_version) ==
    IF text = <<>> THEN <<>>
    ELSE IF Head(text).t = "version=" /\ Head(text).v = old_version
         THEN <<[Head(text) EXCEPT !.v = new_version]>> \o Tail(text)
         ELSE <<Head(text)>> \o ReplaceVersion_first_only(Tail(text), old_version, new_version)

\* text.replace('version="old"', 'version="new"'): every occurrence
ReplaceVersion(text, old_version, new_version) ==
    [k \in 1..Len(text) |->
        IF IsVersionAttr(text[k]) /\ text[k].v = old_version
        THEN VersionAttr(new_version)
        ELSE text[k]]

\* text.replace('<news>', '<news>\n' + lines): every occurrence
RECURSIVE ReplaceNews(_, _)
ReplaceNews(text, lines) ==
    IF text = <<>> THEN <<>>
    ELSE IF Head(text) = NEWS
         THEN <<NEWS, NL>> \o lines \o ReplaceNews(Tail(text), lines)
         ELSE <<Head(text)>> \o ReplaceNews(Tail(text), lines)

\* text.replace('\n\n\n', '\n\n'): one pass, left to right, non-overlapping
RECURSIVE CollapseNewlines(_)
CollapseNewlines(text) ==
    IF Len(text) < 3 THEN text
    ELSE IF text[1] = NL /\ text[2] = NL /\ text[3] = NL
         THEN <<NL, NL>> \o CollapseNewlines(SubSeq(text, 4, Len(text)))
         ELSE <<Head(text)>> \o CollapseNewlines(Tail(text))

\* -------------------------------------------------------------------- paths
SLASH == "/"
RESOURCE_LANGUAGE == "resource.language."
STRINGS_PO == "strings.po"
LANGINFO_XML == "langinfo.xml"

Contains(path, atom) == \E k \in 1..Len(path) : path[k] = atom
EndsWith(path, atoms) == path # <<>> /\ path[Len(path)] \in atoms

Max(S) == CHOOSE x \in S : \A y \in S : x >= y
SlashIndexes(path) == {k \in 1..Len(path) : path[k] = SLASH}

RECURSIVE rstrip(_)
rstrip(path) ==
    IF path # <<>> /\ path[Len(path)] = SLASH
    THEN rstrip(SubSeq(path, 1, Len(path) - 1))
    ELSE path

\* os.path.split(path)[0] (posixpath)
os_path_split_head(path) ==
    LET i == IF SlashIndexes(path) = {} THEN 0 ELSE Max(SlashIndexes(path))
        head == SubSeq(path, 1, i)
    IN  IF head # <<>> /\ rstrip(head) # <<>> THEN rstrip(head) ELSE head

\* folder.split('/')[0] and folder.split('/')[-1]
FirstSegment(folder) ==
    IF SlashIndexes(folder) = {} THEN folder
    ELSE SubSeq(folder, 1, Min(SlashIndexes(folder)) - 1)

LastSegment(folder) ==
    IF SlashIndexes(folder) = {} THEN folder
    ELSE SubSeq(folder, Max(SlashIndexes(folder)) + 1, Len(folder))

\* --------------------------------------------------------------- classifier
\* a bug the relevance test could have: langinfo.xml is forgotten
IsLanguageFile_po_only(chg_file) ==
    Contains(chg_file, RESOURCE_LANGUAGE) /\ EndsWith(chg_file, {STRINGS_PO})

\* repo-resources: the relevance test of get_addon_folders
IsLanguageFile(chg_file) ==
    Contains(chg_file, RESOURCE_LANGUAGE) /\ EndsWith(chg_file, {STRINGS_PO, LANGINFO_XML})

\* the payload list of get_addon_folders, before list(set(payload))
RECURSIVE addon_payload(_)
addon_payload(chg_files) ==
    IF chg_files = <<>> THEN <<>>
    ELSE (IF IsLanguageFile(Head(chg_files))
          THEN <<FirstSegment(os_path_split_head(Head(chg_files)))>>
          ELSE <<>>) \o addon_payload(Tail(chg_files))

Range(s) == {s[k] : k \in 1..Len(s)}

\* a bug get_addon_folders could have: the relevance test is left out
get_addon_folders_every_file(chg_files) ==
    {FirstSegment(os_path_split_head(chg_files[k])) : k \in 1..Len(chg_files)}

\* get_addon_folders: list(set(payload)), as the set; the list order is
\* the set's iteration order, any of Orderings(...)
get_addon_folders(chg_files) == Range(addon_payload(chg_files))

Orderings(S) == {s \in [1..Cardinality(S) -> S] : Range(s) = S}

\* binary: the relevance test of is_po_modified and modified_languages
IsPoFile(chg_file) ==
    Contains(chg_file, RESOURCE_LANGUAGE) /\ EndsWith(chg_file, {STRINGS_PO})

RECURSIVE po_payload(_)
po_payload(chg_files) ==
    IF chg_files = <<>> THEN <<>>
    ELSE (IF IsPoFile(Head(chg_files))
          THEN <<LastSegment(os_path_split_head(Head(chg_files)))>>
          ELSE <<>>) \o po_payload(Tail(chg_files))

is_po_modified(chg_files) == po_payload(chg_files) # <<>>

\* str.replace('resource.language.', '') on a folder name
RECURSIVE StripResourceLanguage(_)
StripResourceLanguage(folder) ==
    IF folder = <<>> THEN <<>>
    ELSE (IF Head(folder) = RESOURCE_LANGUAGE THEN <<>> ELSE <<Head(folder)>>)
         \o StripResourceLanguage(Tail(folder))

\* string order of the atoms a language name is made of (none is a prefix
\* of another, so comparing names atom by atom is comparing them as strings)
AtomOrder == <<"en_gb", "en_us", "resources", "x">>
AtomRank(atom) == CHOOSE k \in 1..Len(AtomOrder) : AtomOrder[k] = atom

RECURSIVE StringLess(_, _)
StringLess(a, b) ==
    IF b = <<>> THEN FALSE
    ELSE IF a = <<>> THEN TRUE
    ELSE IF Head(a) = Head(b) THEN StringLess(Tail(a), Tail(b))
    ELSE AtomRank(Head(a)) < AtomRank(Head(b))

RECURSIVE Insert(_, _)
Insert(sorted_list, x) ==
    IF sorted_list = <<>> THEN <<x>>
    ELSE IF StringLess(x, Head(sorted_list)) THEN <<x>> \o sorted_list
    ELSE <<Head(sorted_list)>> \o Insert(Tail(sorted_list), x)

RECURSIVE sorted(_)
sorted(list) ==
    IF list = <<>> THEN <<>> ELSE Insert(sorted(Tail(list)), Head(list))

RECURSIVE MapStrip(_)
MapStrip(list) ==
    IF list = <<>> THEN <<>>
    ELSE <<StripResourceLanguage(Head(list))>> \o MapStrip(Tail(list))

\* modified_languages: the sorted language names, joined with ', ' when printed
modified_languages(chg_files) == sorted(MapStrip(po_payload(chg_files)))

\* ------------------------------------------------------------------ entries
VersionText(version) == [t |-> "v", v |-> version, l |-> <<>>]
DATE == Tok(" (today)")
BOLD == Tok("[B]")
END_BOLD == Tok("[/B]")
NOTICE == Tok("- Translations updates from Weblate")
NOTICE_BINARY == Tok("Translations updates from Weblate")
LanguageLine(languages) == [t |-> "\\t- ", v |-> <<>>, l |-> languages]

\* repo-resources create_changelog_string
create_changelog_string(version, add_date, bold_version) ==
    LET dated == <<VersionText(version)>> \o (IF add_date THEN <<DATE>> ELSE <<>>)
        version_string == IF bold_version THEN <<BOLD>> \o dated \o <<END_BOLD>> ELSE dated
    IN  version_string \o <<NL, NOTICE, NL, NL>>

\* binary create_changelog_string
create_changelog_string_binary(version, languages, add_date) ==
    <<VersionText(version)>> \o (IF add_date THEN <<DATE>> ELSE <<>>)
        \o <<NL, NOTICE_BINARY, NL, LanguageLine(languages), NL, NL>>

\* a bug the news insertion could have: the blank-line cleanup is left out
insert_news_no_collapse(xml, lines) == ReplaceNews(xml, lines)

\* the news insertion of both update_news functions
insert_news(xml, lines) == CollapseNewlines(ReplaceNews(xml, lines))

\* ==================================================================== state
VARIABLES
    variant,        \* which script runs: "repo-resources" or "binary"
    pc,             \* where the run is
    exit_code,      \* the process exit status, -1 while running
    args,           \* the parsed command line
    changed_files,  \* json.load of files.json
    addon_folders,  \* repo-resources: get_addon_folders(changed_files)
    todo,           \* the folders the running loop has still to visit
    addon_xml,      \* the manifest files: folder -> text
    changelog_txt,  \* the changelog files: folder -> text
    initial,        \* the files as the run found them
    xml_content,    \* binary main: xml_content
    old_version,    \* old_version of the unit bumped last
    new_version,    \* new_version of the unit bumped last
    trace           \* the file reads and writes of the run, in order

vars == <<variant, pc, exit_code, args, changed_files, addon_folders, todo, addon_xml,
          changelog_txt, initial, xml_content, old_version, new_version, trace>>

Event(op, file, folder, changed) ==
    [op |-> op, file |-> file, folder |-> folder, changed |-> changed]

\* the json argument: whether it ends in '.json', whether it names a file
JsonArguments == [suffix : BOOLEAN, isfile : BOOLEAN]

NoArgs ==
    [json |-> [suffix |-> FALSE, isfile |-> FALSE], update_changelog |-> FALSE,
     update_news |-> FALSE, add_date |-> FALSE, bold_version |-> FALSE]

\* ------------------------------------------------------------------- inputs
EN_GB == <<RESOURCE_LANGUAGE, "en_gb">>
EN_US == <<RESOURCE_LANGUAGE, "en_us">>
Folders == {EN_GB, EN_US}

DriverPaths ==
    {folder \o <<SLASH, "resources", SLASH, STRINGS_PO>> : folder \in Folders}
        \cup {EN_GB \o <<SLASH, LANGINFO_XML>>,
              <<"unrelated", SLASH, "file.txt">>}

FileLists(paths) == SeqsUpTo(paths, MaxFiles)

ManifestHeads ==
    {<<TEXT>>} \cup {<<ADDON, TEXT, VersionAttr(version)>> : version \in {V109, V10}}
ManifestTails == {<<>>, <<NEWS, NL>>}
DriverManifests == {head \o tail : head \in ManifestHeads, tail \in ManifestTails}

OLD_ENTRIES == Tok("old entries")
DriverChangelogs == {<<>>, <<OLD_ENTRIES>>}

\* ============================================== repo-resources: main (230-266)
InitRepo ==
    /\ variant = "repo-resources"
    /\ pc = "parse_args"
    /\ exit_code = -1
    /\ args = NoArgs
    /\ changed_files = <<>>
    /\ addon_folders = <<>>
    /\ todo = <<>>
    /\ addon_xml \in [Folders -> DriverManifests]
    /\ changelog_txt \in [Folders -> DriverChangelogs]
    /\ initial = [addon_xml |-> addon_xml, changelog_txt |-> changelog_txt]
    /\ xml_content = <<>>
    /\ old_version = <<>>
    /\ new_version = <<>>
    /\ trace = <<>>

Exit(code) == pc' = "exited" /\ exit_code' = code
\* an exception nobody catches: the interpreter prints the traceback and
\* ends with status 1
Raise == pc' = "traceback" /\ exit_code' = 1

\* a bug files_json could have: the '.json' test is left out
files_json_isfile_only(string) == string.isfile

\* files_json: TRUE when it returns the string, FALSE when it raises
\* FileExistsError
files_json(string) == string.isfile /\ string.suffix

\* parser.parse_args(): argparse does not catch the FileExistsError of
\* type=files_json
ParseArgs ==
    /\ variant = "repo-resources"
    /\ pc = "parse_args"
    /\ \E json \in JsonArguments, c, n, d, bv \in BOOLEAN :
          /\ args' = [json |-> json, update_changelog |-> c, update_news |-> n,
                      add_date |-> d, bold_version |-> bv]
          /\ IF files_json(json) THEN pc' = "load" /\ exit_code' = exit_code ELSE Raise
    /\ UNCHANGED <<changed_files, addon_folders, todo, addon_xml, changelog_txt,
                   initial, xml_content, old_version, new_version, trace, variant>>

\* json.load(open_file)
LoadJson ==
    /\ variant = "repo-resources"
    /\ pc = "load"
    /\ changed_files' \in FileLists(DriverPaths)
    /\ pc' = "classify"
    /\ UNCHANGED <<exit_code, args, addon_folders, todo, addon_xml, changelog_txt,
                   initial, xml_content, old_version, new_version, trace, variant>>

\* addon_folders = get_addon_folders(changed_files); exit(0) when empty
Classify ==
    /\ variant = "repo-resources"
    /\ pc = "classify"
    /\ addon_folders' \in Orderings(get_addon_folders(changed_files))
    /\ IF addon_folders' = <<>>
       THEN Exit(0) /\ todo' = <<>>
       ELSE pc' = "update_addon_versions" /\ todo' = addon_folders' /\ exit_code' = exit_code
    /\ UNCHANGED <<args, changed_files, addon_xml, changelog_txt, initial,
                   xml_content, old_version, new_version, trace, variant>>

\* a bug the skip could have: the run ends as it does in the binary script
SkipUnitFatal == pc' = "exited" /\ exit_code' = 1 /\ todo' = todo

\* 'continue' after "Unable to determine current version... skipping."
SkipUnit == todo' = Tail(todo) /\ UNCHANGED <<pc, exit_code>>

\* one iteration of the loop of update_addon_versions (199-227)
UpdateAddonVersion ==
    /\ variant = "repo-resources"
    /\ pc = "update_addon_versions"
    /\ todo # <<>>
    /\ LET folder == Head(todo)
           text == addon_xml[folder]
           old == current_version(text)
           read == Append(trace, Event("read", "addon.xml", folder, FALSE))
       IN  IF folder \notin DOMAIN addon_xml
           THEN \* open() raises FileNotFoundError
                /\ Raise
                /\ UNCHANGED <<todo, trace, addon_xml, old_version, new_version>>
           ELSE IF old = <<>>
           THEN /\ SkipUnit
                /\ trace' = read
                /\ UNCHANGED <<addon_xml, old_version, new_version>>
           ELSE IF ~CanIncrement(old)
           THEN \* increment_version raises IndexError or ValueError
                /\ Raise
                /\ trace' = read
                /\ old_version' = old
                /\ UNCHANGED <<todo, addon_xml, new_version>>
           ELSE LET new == increment_version(old)
                    new_xml_content == ReplaceVersion(text, old, new)
                IN  /\ old_version' = old
                    /\ new_version' = new
                    /\ todo' = Tail(todo)
                    /\ UNCHANGED <<pc, exit_code>>
                    /\ IF text = new_xml_content
                       THEN \* XML was unmodified... skipping.
                            trace' = read /\ UNCHANGED addon_xml
                       ELSE /\ addon_xml' = [addon_xml EXCEPT ![folder] = new_xml_content]
                            /\ trace' = Append(read, Event("write", "addon.xml", folder, TRUE))
    /\ UNCHANGED <<args, changed_files, addon_folders, changelog_txt, initial, xml_content,
                   variant>>

\* a bug main could have: the two optional steps run whatever the flags say
StepAfter_ignores_flags(step) ==
    IF step = "update_addon_versions" THEN "update_changelogs"
    ELSE IF step = "update_changelogs" THEN "update_news"
    ELSE "exited"

\* main, 260-266: which step follows the one whose loop has ended
StepAfter(step) ==
    IF step = "update_addon_versions" /\ args.update_changelog THEN "update_changelogs"
    ELSE IF step \in {"update_addon_versions", "update_changelogs"} /\ args.update_news
    THEN "update_news"
    ELSE "exited"

NextStep ==
    /\ variant = "repo-resources"
    /\ pc \in {"update_addon_versions", "update_changelogs", "update_news"}
    /\ todo = <<>>
    /\ pc' = StepAfter(pc)
    /\ IF pc' = "exited"
       THEN exit_code' = 0 /\ todo' = <<>>
       ELSE exit_code' = exit_code /\ todo' = addon_folders
    /\ UNCHANGED <<args, changed_files, addon_folders, addon_xml, changelog_txt,
                   initial, xml_content, old_version, new_version, trace, variant>>

\* one iteration of the loop of update_changelogs (120-143)
UpdateChangelog ==
    /\ variant = "repo-resources"
    /\ pc = "update_changelogs"
    /\ todo # <<>>
    /\ LET folder == Head(todo)
           version == current_version(addon_xml[folder])
           read == Append(trace, Event("read", "addon.xml", folder, FALSE))
           changelog_string ==
               create_changelog_string(version, args.add_date, args.bold_version)
       IN  IF version = <<>>
           THEN trace' = read /\ UNCHANGED changelog_txt
           ELSE /\ changelog_txt' =
                      [changelog_txt EXCEPT ![folder] = changelog_string \o @]
                /\ trace' = read \o <<Event("read", "changelog.txt", folder, FALSE),
                                      Event("write", "changelog.txt", folder, TRUE)>>
    /\ todo' = Tail(todo)
    /\ UNCHANGED <<pc, exit_code, args, changed_files, addon_folders, addon_xml,
                   initial, xml_content, old_version, new_version, variant>>

\* one iteration of the loop of update_news (158-188)
UpdateNews ==
    /\ variant = "repo-resources"
    /\ pc = "update_news"
    /\ todo # <<>>
    /\ LET folder == Head(todo)
           text == addon_xml[folder]
           version == current_version(text)
           read == Append(trace, Event("read", "addon.xml", folder, FALSE))
           changelog_string ==
               create_changelog_string(version, args.add_date, args.bold_version)
           new_xml_content == insert_news(text, changelog_string)
       IN  IF version = <<>> \/ text = new_xml_content
           THEN trace' = read /\ UNCHANGED addon_xml
           ELSE /\ addon_xml' = [addon_xml EXCEPT ![folder] = new_xml_content]
                /\ trace' = Append(read, Event("write", "addon.xml", folder, TRUE))
    /\ todo' = Tail(todo)
    /\ UNCHANGED <<pc, exit_code, args, changed_files, addon_folders, changelog_txt,
                   initial, xml_content, old_version, new_version, variant>>


\* ====================================================== binary: main (300-358)
\* the one add-on of a binary add-on repository: the folder in which
\* find_addon_xml finds addon.xml.in (and find_changelog changelog.txt, when
\* the repository has one)
ADDON_DIR == <<"pvr.binary.example">>

BinaryPaths ==
    DriverPaths \cup {<<"resources", SLASH>> \o EN_US \o <<SLASH, STRINGS_PO>>}

InitBinary ==
    /\ variant = "binary"
    /\ pc = "parse_args"
    /\ exit_code = -1
    /\ args = NoArgs
    /\ changed_files = <<>>
    /\ addon_folders = <<>>
    /\ todo = <<>>
    /\ addon_xml \in [{ADDON_DIR} -> DriverManifests]
    /\ changelog_txt \in [{ADDON_DIR} -> DriverChangelogs] \cup {<<>>}
    /\ initial = [addon_xml |-> addon_xml, changelog_txt |-> changelog_txt]
    /\ xml_content = <<>>
    /\ old_version = <<>>
    /\ new_version = <<>>
    /\ trace = <<>>

\* 313-321: exit(1) unless args.json ends in '.json'; open() raises
\* FileNotFoundError when it does and names no file
BinaryParseArgs ==
    /\ variant = "binary"
    /\ pc = "parse_args"
    /\ \E json \in JsonArguments, c, n, d \in BOOLEAN :
          /\ args' = [json |-> json, update_changelog |-> c, update_news |-> n,
                      add_date |-> d, bold_version |-> FALSE]
          /\ IF ~json.suffix THEN Exit(1)
             ELSE IF ~json.isfile THEN Raise
             ELSE pc' = "load" /\ exit_code' = exit_code
    /\ UNCHANGED <<changed_files, addon_folders, todo, addon_xml, changelog_txt,
                   initial, xml_content, old_version, new_version, trace, variant>>

\* 317
BinaryLoadJson ==
    /\ variant = "binary"
    /\ pc = "load"
    /\ changed_files' \in FileLists(BinaryPaths)
    /\ pc' = "is_po_modified"
    /\ UNCHANGED <<exit_code, args, addon_folders, todo, addon_xml, changelog_txt,
                   initial, xml_content, old_version, new_version, trace, variant>>

\* 323-326
BinaryIsPoModified ==
    /\ variant = "binary"
    /\ pc = "is_po_modified"
    /\ IF is_po_modified(changed_files)
       THEN pc' = "update_xml_version" /\ exit_code' = exit_code
       ELSE Exit(0)
    /\ UNCHANGED <<args, changed_files, addon_folders, todo, addon_xml, changelog_txt,
                   initial, xml_content, old_version, new_version, trace, variant>>

\* a bug update_xml_version could have: the text comes back as it went in
update_xml_version_unpatched(text, old, new) == text

\* update_xml_version (258-282): '' (here <<>>) when nothing was replaced
update_xml_version(text, old, new) ==
    LET new_xml_content == ReplaceVersion(text, old, new)
    IN  IF text = new_xml_content THEN <<>> ELSE new_xml_content

\* 330-345
BinaryUpdateVersion ==
    /\ variant = "binary"
    /\ pc = "update_xml_version"
    /\ LET text == addon_xml[ADDON_DIR]
           old == current_version(text)
           read == Append(trace, Event("read", "addon.xml", ADDON_DIR, FALSE))
       IN  /\ old_version' = old
           /\ IF old = <<>>
              THEN \* Unable to determine the current version. exiting...
                   /\ Exit(1)
                   /\ xml_content' = text
                   /\ trace' = read
                   /\ UNCHANGED <<addon_xml, new_version>>
              ELSE IF ~CanIncrement(old)
              THEN /\ Raise
                   /\ xml_content' = text
                   /\ trace' = read
                   /\ UNCHANGED <<addon_xml, new_version>>
              ELSE LET new == increment_version(old)
                       updated == update_xml_version(text, old, new)
                   IN  /\ new_version' = new
                       /\ xml_content' = updated
                       /\ IF updated = <<>>
                          THEN \* Unable to update the current version ... exiting...
                               /\ Exit(1)
                               /\ trace' = read
                               /\ UNCHANGED addon_xml
                          ELSE /\ pc' = "update_changelog"
                               /\ exit_code' = exit_code
                               /\ addon_xml' = [addon_xml EXCEPT ![ADDON_DIR] = updated]
                               /\ trace' = Append(read,
                                     Event("write", "addon.xml", ADDON_DIR, updated # text))
    /\ UNCHANGED <<args, changed_files, addon_folders, todo, changelog_txt, initial, variant>>

\* update_changelog (156-178): the entry followed by the file's content
update_changelog(content, version, chg_files, add_date) ==
    create_changelog_string_binary(version, modified_languages(chg_files), add_date)
        \o content

\* write_changelog (181-193): what the file holds afterwards
write_changelog(content, contents) == contents \o content

\* 347-352
BinaryUpdateChangelog ==
    /\ variant = "binary"
    /\ pc = "update_changelog"
    /\ pc' = "update_news"
    /\ IF args.update_changelog /\ ADDON_DIR \in DOMAIN changelog_txt
       THEN LET content == changelog_txt[ADDON_DIR]
                changelog_contents ==
                    update_changelog(content, new_version, changed_files, args.add_date)
            IN  /\ changelog_txt' =
                       [changelog_txt EXCEPT
                           ![ADDON_DIR] = write_changelog(content, changelog_contents)]
                /\ trace' = trace \o
                       <<Event("read", "changelog.txt", ADDON_DIR, FALSE),
                         Event("read", "changelog.txt", ADDON_DIR, FALSE),
                         Event("write", "changelog.txt", ADDON_DIR, TRUE)>>
       ELSE UNCHANGED <<changelog_txt, trace>>
    /\ UNCHANGED <<exit_code, args, changed_files, addon_folders, todo, addon_xml,
                   initial, xml_content, old_version, new_version, variant>>

\* binary update_news (196-225)
update_news(text, version, chg_files, add_date) ==
    insert_news(text,
        create_changelog_string_binary(version, modified_languages(chg_files), add_date))

\* 354-358
BinaryUpdateNews ==
    /\ variant = "binary"
    /\ pc = "update_news"
    /\ Exit(0)
    /\ IF args.update_news
       THEN LET updated ==
                    update_news(xml_content, new_version, changed_files, args.add_date)
            IN  /\ xml_content' = updated
                /\ addon_xml' = [addon_xml EXCEPT ![ADDON_DIR] = updated]
                /\ trace' = Append(trace,
                      Event("write", "addon.xml", ADDON_DIR, updated # addon_xml[ADDON_DIR]))
       ELSE UNCHANGED <<xml_content, addon_xml, trace>>
    /\ UNCHANGED <<args, changed_files, addon_folders, todo, changelog_txt, initial,
                   old_version, new_version, variant>>

\* ------------------------------------------------ a run of either script
Init == InitRepo \/ InitBinary

Next ==
    \/ ParseArgs
    \/ LoadJson
    \/ Classify
    \/ UpdateAddonVersion
    \/ NextStep
    \/ UpdateChangelog
    \/ UpdateNews
    \/ BinaryParseArgs
    \/ BinaryLoadJson
    \/ BinaryIsPoModified
    \/ BinaryUpdateVersion
    \/ BinaryUpdateChangelog
    \/ BinaryUpdateNews

Spec == Init /\ [][Next]_vars

\* ============================================== the functions, one at a time
\* The state a function's call does not use.
Idle ==
    /\ exit_code = -1
    /\ args = NoArgs
    /\ addon_folders = <<>>
    /\ todo = <<>>
    /\ changelog_txt = <<>>
    /\ trace = <<>>

\* ---------------------------------------------------------- increment_version
InitVersion ==
    /\ Idle
    /\ variant \in {"repo-resources", "binary"}
    /\ pc = "call"
    /\ old_version \in VersionStrings \cup {V7191}
    /\ new_version = <<>>
    /\ changed_files = <<>>
    /\ addon_xml = <<>>
    /\ initial = <<>>
    /\ xml_content = <<>>

\* new_version = increment_version(old_version)
CallIncrementVersion ==
    /\ pc = "call"
    /\ IF CanIncrement(old_version)
       THEN pc' = "returned" /\ new_version' = increment_version(old_version)
       ELSE pc' = "raised" /\ new_version' = new_version
    /\ UNCHANGED <<variant, exit_code, args, changed_files, addon_folders, todo,
                   addon_xml, changelog_txt, initial, xml_content, old_version, trace>>

SpecVersion == InitVersion /\ [][CallIncrementVersion]_vars

\* ------------------------------------------------------------ the classifier
ClassifyFolders ==
    {<<>>,
     EN_GB \o <<SLASH>>,
     EN_GB \o <<SLASH, "resources", SLASH>>,
     EN_US \o <<SLASH, "resources", SLASH>>,
     <<"x">> \o EN_GB \o <<SLASH>>,
     <<"unrelated", SLASH>>}
ClassifyNames ==
    {<<STRINGS_PO>>, <<LANGINFO_XML>>, <<"file.txt">>, <<"x", STRINGS_PO>>}
ClassifyPaths == {folder \o name : folder \in ClassifyFolders, name \in ClassifyNames}

InitClassify ==
    /\ Idle
    /\ variant = "repo-resources"
    /\ pc = "call"
    /\ changed_files \in SeqsUpTo(ClassifyPaths, MaxClassifyFiles)
    /\ old_version = <<>>
    /\ new_version = <<>>
    /\ addon_xml = <<>>
    /\ initial = <<>>
    /\ xml_content = <<>>

\* addon_folders = get_addon_folders(changed_files)
CallGetAddonFolders ==
    /\ pc = "call"
    /\ pc' = "returned"
    /\ addon_folders' \in Orderings(get_addon_folders(changed_files))
    /\ UNCHANGED <<variant, exit_code, args, changed_files, todo, addon_xml,
                   changelog_txt, initial, xml_content, old_version, new_version, trace>>

SpecClassify == InitClassify /\ [][CallGetAddonFolders]_vars

\* ------------------------------------------------- the manifest version bump
PatchTokens ==
    {ADDON, TEXT, VersionAttr(V109), VersionAttr(V1010), VersionAttr(V10)}
PatchTexts == SeqsUpTo(PatchTokens, MaxTextLen)

InitPatch ==
    /\ Idle
    /\ variant \in {"repo-resources", "binary"}
    /\ pc = "call"
    /\ addon_xml \in [{ADDON_DIR} -> PatchTexts]
    /\ initial = addon_xml
    /\ xml_content = <<>>
    /\ old_version = <<>>
    /\ new_version = <<>>
    /\ changed_files = <<>>

\* the bump of one manifest: repo-resources 200-225, binary 331-345
PatchVersion ==
    /\ pc = "call"
    /\ LET text == addon_xml[ADDON_DIR]
           old == current_version(text)
       IN  /\ old_version' = old
           /\ IF old = <<>>
              THEN pc' = "no_version" /\ UNCHANGED <<addon_xml, new_version, xml_content>>
              ELSE IF ~CanIncrement(old)
              THEN pc' = "raised" /\ UNCHANGED <<addon_xml, new_version, xml_content>>
              ELSE LET new == increment_version(old)
                       new_xml_content == ReplaceVersion(text, old, new)
                   IN  /\ new_version' = new
                       /\ xml_content' = new_xml_content
                       /\ IF text = new_xml_content
                          THEN pc' = "unmodified" /\ UNCHANGED addon_xml
                          ELSE /\ pc' = "patched"
                               /\ addon_xml' = [addon_xml EXCEPT ![ADDON_DIR] = new_xml_content]
    /\ UNCHANGED <<variant, exit_code, args, changed_files, addon_folders, todo,
                   changelog_txt, initial, trace>>

\* the replacement once more, with the same old_version and new_version:
\* repo-resources 214-225 skips the write and goes on,
\* binary 340-345 exits with 1 as update_xml_version returns ''
PatchAgain ==
    /\ pc = "patched"
    /\ LET text == addon_xml[ADDON_DIR]
       IN  IF variant = "repo-resources"
           THEN LET new_xml_content == ReplaceVersion(text, old_version, new_version)
                IN  /\ xml_content' = new_xml_content
                    /\ IF text = new_xml_content
                       THEN pc' = "skipped" /\ UNCHANGED <<addon_xml, exit_code>>
                       ELSE /\ pc' = "patched_again"
                            /\ addon_xml' = [addon_xml EXCEPT ![ADDON_DIR] = new_xml_content]
                            /\ UNCHANGED exit_code
           ELSE LET updated == update_xml_version(text, old_version, new_version)
                IN  /\ xml_content' = updated
                    /\ IF updated = <<>>
                       THEN Exit(1) /\ UNCHANGED addon_xml
                       ELSE /\ pc' = "patched_again"
                            /\ addon_xml' = [addon_xml EXCEPT ![ADDON_DIR] = updated]
                            /\ UNCHANGED exit_code
    /\ UNCHANGED <<variant, args, changed_files, addon_folders, todo, changelog_txt,
                   initial, old_version, new_version, trace>>

NextPatch == PatchVersion \/ PatchAgain

SpecPatch == InitPatch /\ [][NextPatch]_vars

\* ---------------------------------------------------------- the news update
NewsTexts == SeqsUpTo({NEWS, NL, TEXT}, MaxTextLen)

InitNews ==
    /\ exit_code = -1
    /\ addon_folders = <<>>
    /\ todo = <<>>
    /\ changelog_txt = <<>>
    /\ trace = <<>>
    /\ variant \in {"repo-resources", "binary"}
    /\ pc = "call"
    /\ \E d, bv \in BOOLEAN :
          args = [json |-> [suffix |-> TRUE, isfile |-> TRUE], update_changelog |-> FALSE, update_news |-> TRUE,
                  add_date |-> d, bold_version |-> bv /\ variant = "repo-resources"]
    /\ changed_files \in SeqsUpTo({EN_GB \o <<SLASH, STRINGS_PO>>}, 1)
    /\ xml_content \in NewsTexts
    /\ initial = xml_content
    /\ new_version = V1010
    /\ old_version = V109
    /\ addon_xml = <<>>

\* the entry the variant's update_news inserts
NewsLines ==
    IF variant = "repo-resources"
    THEN create_changelog_string(new_version, args.add_date, args.bold_version)
    ELSE create_changelog_string_binary(
             new_version, modified_languages(changed_files), args.add_date)

\* repo-resources 170-178, binary update_news
CallUpdateNews ==
    /\ pc = "call"
    /\ pc' = "returned"
    /\ xml_content' =
           IF variant = "repo-resources"
           THEN insert_news(xml_content,
                    create_changelog_string(new_version, args.add_date, args.bold_version))
           ELSE update_news(xml_content, new_version, changed_files, args.add_date)
    /\ UNCHANGED <<variant, exit_code, args, changed_files, addon_folders, todo, addon_xml,
                   changelog_txt, initial, old_version, new_version, trace>>

SpecNews == InitNews /\ [][CallUpdateNews]_vars

\* =================================================================== claims
\* the number a string of decimal digits writes
RECURSIVE Power10(_)
Power10(n) == IF n = 0 THEN 1 ELSE 10 * Power10(n - 1)

RECURSIVE DecimalValue(_)
DecimalValue(digits) ==
    IF digits = <<>> THEN 0
    ELSE Head(digits) * Power10(Len(digits) - 1) + DecimalValue(Tail(digits))

V100 == << <<1>>, <<0>>, <<0>> >>
V101 == << <<1>>, <<0>>, <<1>> >>
V7192 == << <<7>>, <<1, 9>>, <<2>> >>

\* C1: increment_version, given a version of three components or more whose
\* component at index 2 is a non-negative integer c, returns the version
\* with the integer c+1 at index 2 and every other component unchanged;
\* "1.0.0" gives "1.0.1" and "7.19.1" gives "7.19.2".
IncrementRaisesOnlyMicro ==
    (pc # "call" /\ Len(old_version) >= 3 /\ old_version[3] # <<>>) =>
        /\ pc = "returned"
        /\ Len(new_version) = Len(old_version)
        /\ \A k \in 1..Len(old_version) : k # 3 => new_version[k] = old_version[k]
        /\ DecimalValue(new_version[3]) = DecimalValue(old_version[3]) + 1
        /\ Len(new_version[3]) = 1 \/ new_version[3][1] # 0
        /\ old_version = V100 => new_version = V101
        /\ old_version = V7191 => new_version = V7192

\* a version of four components with a leading zero in the micro component
\* has been incremented: "1.0.09.9" to "1.0.10.9"
IncrementWitness ==
    /\ pc = "returned"
    /\ old_version = << <<1>>, <<0>>, <<0, 9>>, <<9>> >>
    /\ new_version = << <<1>>, <<0>>, <<1, 0>>, <<9>> >>

\* the part of a path before its first '/', '' for a path without one
UnitOf(path) ==
    IF SlashIndexes(path) = {} THEN <<>>
    ELSE SubSeq(path, 1, Min(SlashIndexes(path)) - 1)

\* the relevance of the specification: a path segment starts with
\* 'resource.language.' and the file name ends with strings.po or langinfo.xml
SegmentRelevant(path) ==
    /\ \E k \in 1..Len(path) :
          path[k] = RESOURCE_LANGUAGE /\ (k = 1 \/ path[k - 1] = SLASH)
    /\ path # <<>>
    /\ path[Len(path)] \in {STRINGS_PO, LANGINFO_XML}

\* the relevance of the code: 'resource.language.' occurs anywhere in the path
SubstringRelevant(path) ==
    /\ \E k \in 1..Len(path) : path[k] = RESOURCE_LANGUAGE
    /\ path # <<>>
    /\ path[Len(path)] \in {STRINGS_PO, LANGINFO_XML}

ExampleFiles ==
    <<EN_GB \o <<SLASH, "resources", SLASH, STRINGS_PO>>,
      EN_US \o <<SLASH, "resources", SLASH, STRINGS_PO>>,
      <<"unrelated", SLASH, "file.txt">>>>

\* C2 (as claimed): get_addon_folders returns exactly the units of the paths
\* of which a segment starts with 'resource.language.' and the file name ends
\* with 'strings.po' or 'langinfo.xml'.
ClassifierBySegment ==
    pc = "returned" =>
        Range(addon_folders) =
            {UnitOf(changed_files[k]) :
                k \in {j \in 1..Len(changed_files) : SegmentRelevant(changed_files[j])}}

\* C2 (as amended): get_addon_folders returns, each once, exactly the first
\* path segments of the paths that contain 'resource.language.' anywhere and
\* end with 'strings.po' or 'langinfo.xml'; for the three example paths these
\* are resource.language.en_gb and resource.language.en_us.
ClassifierBySubstring ==
    pc = "returned" =>
        /\ Range(addon_folders) =
              {UnitOf(changed_files[k]) :
                  k \in {j \in 1..Len(changed_files) : SubstringRelevant(changed_files[j])}}
        /\ Cardinality(Range(addon_folders)) = Len(addon_folders)
        /\ changed_files = ExampleFiles => Range(addon_folders) = {EN_GB, EN_US}

\* the three example paths have been classified
ClassifierWitness ==
    /\ pc = "returned"
    /\ changed_files = ExampleFiles
    /\ addon_folders = <<EN_US, EN_GB>>

\* ------------------------------------------------------------ driver claims
Ended == pc \in {"exited", "traceback"}

\* files.json has been read
Loaded == pc \notin {"parse_args", "load"} /\ args.json.suffix /\ args.json.isfile

\* the units the classifier of the running script finds affected
Affected ==
    IF variant = "repo-resources" THEN get_addon_folders(changed_files)
    ELSE IF is_po_modified(changed_files) THEN {ADDON_DIR} ELSE {}

Parseable(text) == current_version(text) # <<>>

Incrementable(text) == Parseable(text) /\ CanIncrement(current_version(text))

RaisedByOne(old, new) ==
    /\ Len(old) >= 3
    /\ Len(new) = Len(old)
    /\ \A k \in 1..Len(old) : k # 3 => new[k] = old[k]
    /\ DecimalValue(new[3]) = DecimalValue(old[3]) + 1

\* C3 (as claimed): when a run has ended, every affected unit whose manifest
\* holds a version that can be parsed and incremented has its micro version
\* raised by exactly 1, and the manifest of every unit that is not affected
\* is unchanged.
EveryAffectedUnitBumpedOnce ==
    (Ended /\ Loaded) =>
        \A folder \in DOMAIN addon_xml :
            /\ (folder \in Affected /\ Incrementable(initial.addon_xml[folder])) =>
                  RaisedByOne(current_version(initial.addon_xml[folder]),
                              current_version(addon_xml[folder]))
            /\ folder \notin Affected => addon_xml[folder] = initial.addon_xml[folder]

\* C4 (as claimed): the version bump of a manifest changes only the version
\* attribute that the version pattern located; every other part of the text,
\* any other version="..." attribute included, is unchanged.
BumpChangesOnlyAddonVersion ==
    pc = "patched" =>
        \A k \in 1..Len(initial[ADDON_DIR]) :
            k # GET_VERSION_search(initial[ADDON_DIR]) =>
                addon_xml[ADDON_DIR][k] = initial[ADDON_DIR][k]

\* the entry a successful run with --update-changelog writes for a unit
ExpectedEntry(folder) ==
    IF variant = "repo-resources"
    THEN create_changelog_string(
             current_version(addon_xml[folder]), args.add_date, args.bold_version)
    ELSE create_changelog_string_binary(
             current_version(addon_xml[folder]), modified_languages(changed_files),
             args.add_date)

\* C5 (as claimed): after a run with --update-changelog that ended with
\* exit code 0, the changelog of every affected unit with a parseable version
\* is exactly the new entry followed by the content it had before the run.
ChangelogIsEntryThenPrior ==
    (pc = "exited" /\ exit_code = 0 /\ Loaded /\ args.update_changelog) =>
        \A folder \in DOMAIN changelog_txt :
            (folder \in Affected /\ Parseable(initial.addon_xml[folder])) =>
                changelog_txt[folder] =
                    ExpectedEntry(folder) \o initial.changelog_txt[folder]

UnparseableUntouched ==
    \A folder \in DOMAIN addon_xml :
        ~Parseable(initial.addon_xml[folder]) =>
            /\ addon_xml[folder] = initial.addon_xml[folder]
            /\ folder \in DOMAIN changelog_txt =>
                  changelog_txt[folder] = initial.changelog_txt[folder]

SkipStep ==
    /\ (/\ variant = "repo-resources"
        /\ pc \in {"update_addon_versions", "update_changelogs", "update_news"}
        /\ todo # <<>>
        /\ ~Parseable(addon_xml[Head(todo)]))
       => /\ pc' = pc
          /\ exit_code' = exit_code
          /\ todo' = Tail(todo)
          /\ addon_xml' = addon_xml
          /\ changelog_txt' = changelog_txt
    /\ (/\ variant = "binary"
        /\ pc = "update_xml_version"
        /\ ~Parseable(addon_xml[ADDON_DIR]))
       => /\ pc' = "exited"
          /\ exit_code' = 1
          /\ addon_xml' = addon_xml
          /\ changelog_txt' = changelog_txt

NoRelevantPath == \A k \in 1..Len(changed_files) : ~SegmentRelevant(changed_files[k])

FilesUntouched ==
    /\ trace = <<>>
    /\ addon_xml = initial.addon_xml
    /\ changelog_txt = initial.changelog_txt

\* C7: once files.json is read and holds no relevant path, the run can only
\* end with exit code 0, and no file is read or written, whatever the flags.
NoRelevantPathExitsZero ==
    (Loaded /\ NoRelevantPath) =>
        /\ pc \in {"classify", "is_po_modified", "exited"}
        /\ pc = "exited" => exit_code = 0
        /\ FilesUntouched

\* a run with both flags and two irrelevant changed files has ended
NoRelevantPathWitness ==
    /\ pc = "exited"
    /\ exit_code = 0
    /\ Loaded
    /\ Len(changed_files) = 2
    /\ NoRelevantPath
    /\ args.update_changelog
    /\ args.update_news

\* C8: when the positional argument does not end in '.json' the run ends
\* with a non-zero exit code and no file has been read or written.
NotJsonFailsBeforeAnyFile ==
    (pc # "parse_args" /\ ~args.json.suffix) =>
        /\ Ended
        /\ exit_code > 0
        /\ changed_files = <<>>
        /\ FilesUntouched

\* a repo-resources run given an existing file that is not a '.json' has ended
NotJsonWitness ==
    /\ variant = "repo-resources"
    /\ pc = "traceback"
    /\ exit_code = 1
    /\ ~args.json.suffix
    /\ args.json.isfile

\* the manifest before the second pass is the manifest after the first
AfterFirstPass == ReplaceVersion(initial[ADDON_DIR], old_version, new_version)

SecondPassDone == pc \in {"skipped", "patched_again"} \/ (pc = "exited" /\ new_version # <<>>)

RECURSIVE Count(_, _)
Count(text, tok) ==
    IF text = <<>> THEN 0
    ELSE (IF Head(text) = tok THEN 1 ELSE 0) + Count(Tail(text), tok)

\* C10 (as claimed): update_news inserts the entry exactly once, after the
\* first '<news>'; a later '<news>' receives none, a text without '<news>'
\* receives none.
NewsEntryInsertedOnce ==
    pc = "returned" =>
        Count(xml_content, VersionText(new_version)) =
            IF Contains(initial, NEWS) THEN 1 ELSE 0

\* ------------------------------------------------------------------------ C11
HasTripleNewline(text) ==
    \E k \in 1..(Len(text) - 2) : text[k] = NL /\ text[k + 1] = NL /\ text[k + 2] = NL

\* a <news> tag with a blank line right after it
NewsThenBlankLine(text) ==
    \E k \in 1..(Len(text) - 2) : text[k] = NEWS /\ text[k + 1] = NL /\ text[k + 2] = NL

\* "<news>\n</news>" with the closing tag as one piece of text, and what the
\* repo-resources entry for 1.0.10 (no date, not bold) makes of it
NewsExample == <<NEWS, NL, TEXT>>
NewsExampleOutput == <<NEWS, NL, VersionText(V1010), NL, NOTICE, NL, NL, TEXT>>

\* C11 (as stated): update_news introduces no triple newline: when the manifest
\* text has no run of three newlines, neither has the text returned; and
\* "<news>\n</news>" becomes "<news>\n" + entry + "</news>".
InsertNewsNoTripleNewline ==
    pc = "returned" =>
        /\ ~HasTripleNewline(initial) => ~HasTripleNewline(xml_content)
        /\ initial = NewsExample => xml_content = <<NEWS, NL>> \o NewsLines \o <<TEXT>>

\* C11 (amended): when the manifest text has no run of three newlines, the
\* text returned has one exactly when some <news> tag of the manifest is
\* directly followed by two newlines (the entry's two and the manifest's two
\* make four, and the one replacement pass leaves three); the example holds.
InsertNewsTripleNewlineOnlyAfterBlankLine ==
    pc = "returned" =>
        /\ ~HasTripleNewline(initial) =>
               (HasTripleNewline(xml_content) <=> NewsThenBlankLine(initial))
        /\ initial = NewsExample => xml_content = <<NEWS, NL>> \o NewsLines \o <<TEXT>>

InsertNewsWitness ==
    /\ pc = "returned"
    /\ initial = NewsExample
    /\ xml_content = NewsExampleOutput

\* ------------------------------------------------------------------------ C12
\* the place of a step in LOAD_INPUT, CLASSIFY, BUMP_VERSIONS,
\* UPDATE_CHANGELOG, UPDATE_NEWS, EXIT
Rank(step) ==
    CASE step \in {"parse_args", "load"} -> 1
      [] step \in {"classify", "is_po_modified"} -> 2
      [] step \in {"update_addon_versions", "update_xml_version"} -> 3
      [] step \in {"update_changelogs", "update_changelog"} -> 4
      [] step = "update_news" -> 5
      [] step \in {"exited", "traceback"} -> 6

\* the manifest of the unit holds a changelog/news entry
HoldsEntry(text) == \E k \in 1..Len(text) : text[k].t = "v"

\* the version bump of the unit has been written: the run wrote the manifest
\* and it holds the text it began with, the version raised
BumpWritten(folder) ==
    LET text == initial.addon_xml[folder]
        old == current_version(text)
    IN  /\ Incrementable(text)
        /\ addon_xml[folder] = ReplaceVersion(text, old, increment_version(old))
        /\ \E k \in 1..Len(trace) :
               trace[k] = Event("write", "addon.xml", folder, TRUE)

StepInOrder ==
    /\ Rank(pc') >= Rank(pc)
    /\ \A folder \in DOMAIN changelog_txt :
           changelog_txt'[folder] # changelog_txt[folder] =>
               args.update_changelog /\ BumpWritten(folder)
    /\ \A folder \in DOMAIN addon_xml :
           HoldsEntry(addon_xml'[folder]) /\ ~HoldsEntry(addon_xml[folder]) =>
               args.update_news /\ BumpWritten(folder)

OnlyManifestsWithoutFlags ==
    ~args.update_changelog /\ ~args.update_news =>
        /\ changelog_txt = initial.changelog_txt
        /\ \A folder \in DOMAIN addon_xml : ~HoldsEntry(addon_xml[folder])
        /\ \A k \in 1..Len(trace) : trace[k].op = "write" => trace[k].file = "addon.xml"

\* C12: a run never goes back in the order load, classify, bump versions,
\* update changelog, update news, exit; a changelog file is written only with
\* --update-changelog and a news entry is inserted only with --update-news,
\* both only after the version bump of that unit has been written; with
\* neither flag no file but a manifest is written and no manifest receives an
\* entry.
DriverStepsInOrder == [][StepInOrder]_vars /\ []OnlyManifestsWithoutFlags

DriverStepsWitness ==
    /\ variant = "repo-resources"
    /\ pc = "exited"
    /\ exit_code = 0
    /\ args.update_changelog
    /\ args.update_news
    /\ Len(addon_folders) = 2
    /\ \A folder \in Folders :
           /\ changelog_txt[folder] # initial.changelog_txt[folder]
           /\ HoldsEntry(addon_xml[folder])
           /\ current_version(initial.addon_xml[folder]) = V109
           /\ current_version(addon_xml[folder]) = V1010

\* ------------------------------------------------------------------------ C13
\* C13: every write of a manifest in a run, for the version bump or for the
\* news, writes a text that differs from the text the file holds at that
\* moment.
ManifestWrittenOnlyIfChanged ==
    \A k \in 1..Len(trace) :
        trace[k].op = "write" /\ trace[k].file = "addon.xml" => trace[k].changed

\* ------------------------------------------------------------------------ C14
\* the versions the entries of a text carry
EntryVersions(text) == {text[k].v : k \in {i \in 1..Len(text) : text[i].t = "v"}}

\* the versions of the entries the run has written for the unit, in its
\* changelog and in its manifest
EntriesWritten(folder) ==
    EntryVersions(addon_xml[folder])
        \cup (IF folder \in DOMAIN changelog_txt
              THEN EntryVersions(changelog_txt[folder])
              ELSE {})

\* C14: whenever a run has written a changelog or news entry for a unit, the
\* run has written the unit's manifest, the unit's version was one that can be
\* raised, every entry carries that version with micro + 1, and that is the
\* version the manifest holds, from then on to the end of the run.
EntriesCarryBumpedVersion ==
    \A folder \in DOMAIN addon_xml :
        EntriesWritten(folder) # {} =>
            LET text == initial.addon_xml[folder]
            IN  /\ Incrementable(text)
                /\ EntriesWritten(folder) = {increment_version(current_version(text))}
                /\ {current_version(addon_xml[folder])} = EntriesWritten(folder)
                /\ RaisedByOne(current_version(text), current_version(addon_xml[folder]))
                /\ \E k \in 1..Len(trace) :
                       /\ trace[k].op = "write"
                       /\ trace[k].file = "addon.xml"
                       /\ trace[k].folder = folder
                       /\ trace[k].changed

EntriesWitness ==
    /\ variant = "binary"
    /\ pc = "exited"
    /\ exit_code = 0
    /\ current_version(initial.addon_xml[ADDON_DIR]) = V109
    /\ current_version(addon_xml[ADDON_DIR]) = V1010
    /\ ADDON_DIR \in DOMAIN changelog_txt
    /\ EntryVersions(changelog_txt[ADDON_DIR]) = {V1010}
    /\ EntryVersions(addon_xml[ADDON_DIR]) = {V1010}

\* ------------------------------------------------------------------------ C15
V1011 == << <<1>>, <<0>>, <<1, 1>> >>

\* C15: when the version pattern matches the manifest and the matched version
\* can be raised, the replacement changes the text: the "XML was unmodified"
\* branch is never taken (update_xml_version never returns '' and binary main
\* never exits with 1 because of it), and the bumped manifest differs from the
\* one read; no micro component is written the same after it is raised.
UnmodifiedBranchUnreachable ==
    /\ pc # "unmodified"
    /\ \A micro \in DigitStrings \ {<<>>} : str(int(micro) + 1) # micro
    /\ pc = "call" /\ Incrementable(addon_xml[ADDON_DIR]) =>
           LET text == addon_xml[ADDON_DIR]
               old == current_version(text)
               new == increment_version(old)
           IN  /\ new # old
               /\ ReplaceVersion(text, old, new) # text
               /\ update_xml_version(text, old, new) # <<>>
    /\ pc = "patched" =>
           /\ addon_xml[ADDON_DIR] # initial[ADDON_DIR]
           /\ xml_content = addon_xml[ADDON_DIR]
    /\ pc \in {"no_version", "raised"} => ~Incrementable(initial[ADDON_DIR])

UnmodifiedBranchWitness ==
    /\ variant = "binary"
    /\ pc = "patched"
    /\ exit_code = -1
    /\ initial[ADDON_DIR] = <<VersionAttr(V1010), ADDON, TEXT, VersionAttr(V1010)>>
    /\ addon_xml[ADDON_DIR] = <<VersionAttr(V1011), ADDON, TEXT, VersionAttr(V1011)>>
====
